---- MODULE Spec2Model ----
(***************************************************************************)
(* Model of the data layer of hamburgueria-na-brasa                        *)
(* (src/src/backend/models/salesModel.js, productModel.js and the product  *)
(* model variants of the repository).                                      *)
(*                                                                         *)
(* The store (supabase/PostgREST) is modelled as the tables `sales`,       *)
(* `sale_items` and `products`, kept in insertion order.  Every `await supabase...` is    *)
(* one atomic store round trip; a handler that awaits several times is     *)
(* split into one action per round trip, so that other requests can run    *)
(* between them, as they can on the node event loop.  Every round trip     *)
(* may fail with a store error.                                            *)
(*                                                                         *)
(* `product_seq` is the last id the products table handed out.  `cs`, `st` *)
(* and `ct` are the frames of the createSale, getSalesStats and product    *)
(* controller call                                                         *)
(* in progress (their local variables and the await they stand at); `resp` *)
(* is the response most recently delivered to a caller: the operation, its *)
(* outcome, the number of store round trips the call issued, and the value *)
(* returned.  The outcome is "ok" when the call returned a value; any      *)
(* other outcome names the error the call threw: "PGRST116" is the store's *)
(* error for .single() on no row, "error" any other store failure.         *)
(*                                                                         *)
(* Money is modelled in integer units, dates as day numbers, text as       *)
(* sequences of letter codes.                                              *)
(***************************************************************************)
EXTENDS Integers, Sequences, FiniteSets, TLC

VARIABLES sales, sale_items, products, product_seq, today, cs, st, ct, resp

vars == <<sales, sale_items, products, product_seq, today, cs, st, ct, resp>>

(***************************************************************************)
(* Bounds of the model                                                     *)
(***************************************************************************)
MaxSales  == 2
MaxOrders == 1
MaxItems  == 2
MaxQty    == 2
MaxPrice  == 2
MaxTotal  == 2
MaxDay    == 1
MaxFold   == 3
MaxProducts == 2
MaxPage   == 2
MaxLimit  == 2
MaxRows   == 3

(***************************************************************************)
(* Input domains                                                           *)
(***************************************************************************)
Statuses       == {"pending", "completed", "cancelled"}
StatusInputs   == Statuses \cup {"refunded"}
PaymentMethods == {"cash", "card"}
Periods        == {"day", "week", "month", "year"}
Days           == 0..MaxDay

ItemInputs == [product_id : {1}, quantity : 1..MaxQty, price : 1..MaxPrice]

ItemListInputs == UNION {[1..n -> ItemInputs] : n \in 1..MaxItems}

\* headers as the caller submits them: the total is the caller's figure
SaleDataInputs ==
    [total : 1..MaxTotal, status : {"pending"}, payment_method : PaymentMethods]

\* headers that differ in their total only
CashDataInputs ==
    [total : 1..MaxTotal, status : {"pending"}, payment_method : {"cash"}]

\* a single line of one unit at price 1
OneItemInputs_item == [product_id |-> 1, quantity |-> 1, price |-> 1]

OneItemInputs == {<<OneItemInputs_item>>}

\* item lists a caller may pass although they make no sense: no line, a
\* line of quantity 0, a line of negative price
InvalidItemListInputs ==
    {<<>>,
     <<[product_id |-> 1, quantity |-> 0, price |-> 1]>>,
     <<[product_id |-> 1, quantity |-> 1, price |-> -1]>>,
     <<OneItemInputs_item, [product_id |-> 1, quantity |-> -1, price |-> 1]>>}

\* headers of the sale-creation scenarios: one payment method, any total
OrderDataInputs ==
    [total : 0..(MaxQty * MaxPrice), status : {"pending"}, payment_method : {"cash"}]

\* headers of the listing scenarios: all alike
ListDataInputs ==
    [total : {1}, status : {"pending"}, payment_method : {"cash"}]

\* text: 'a' is <<1>>, 'b' is <<2>>, 'ab' is <<1, 2>>; '' is <<>>
TextA  == <<1>>
TextB  == <<2>>
TextAB == <<1, 2>>

\* products as submitted to createProduct
ProductInputs ==
    {[name |-> TextAB, description |-> <<>>, category |-> TextA, price |-> 1],
     [name |-> TextB,  description |-> <<>>, category |-> TextA, price |-> 2],
     [name |-> TextB,  description |-> TextA, category |-> TextB, price |-> 1]}

\* products with their featured and availability flags
FlaggedProductInputs ==
    [name : {TextA, TextB}, category : {TextA}, price : {1},
     is_featured : BOOLEAN, is_available : BOOLEAN]

\* price changes as submitted to updateProduct
PriceUpdates == [price : 1..(MaxPrice + 1)]

\* a JavaScript number, and the string that is its decimal numeral
JsNumber(n) == [t |-> "number", n |-> n]
JsString(n) == [t |-> "string", n |-> n]

\* product data as the controller receives them: every field is optional;
\* a text may be the empty string <<>>, a number may come as a number or as
\* the string of a form field, a flag as true/false or 'true'/'false'
CtrlNothing ==
    [name |-> <<>>, price |-> <<>>, category |-> <<>>, discount_price |-> <<>>,
     is_available |-> <<>>, is_featured |-> <<>>]

CtrlBase ==
    [CtrlNothing EXCEPT !.name = <<TextA>>, !.price = <<JsString(1)>>,
                        !.category = <<TextA>>]

CtrlProductInputs ==
    {CtrlBase,
     [CtrlBase EXCEPT !.name = <<>>],
     [CtrlBase EXCEPT !.category = << <<>> >>],
     [CtrlBase EXCEPT !.price = <<>>],
     [CtrlBase EXCEPT !.price = <<JsNumber(0)>>],
     [CtrlBase EXCEPT !.price = <<JsString(0)>>],
     [CtrlBase EXCEPT !.price = <<JsNumber(-1)>>],
     [CtrlBase EXCEPT !.price = <<JsNumber(MaxPrice)>>,
                      !.discount_price = <<JsString(1)>>,
                      !.is_available = <<"'true'">>, !.is_featured = <<"false">>],
     [CtrlBase EXCEPT !.discount_price = <<JsNumber(MaxPrice)>>]}

CtrlUpdateInputs ==
    {[CtrlNothing EXCEPT !.price = <<JsString(MaxPrice)>>],
     [CtrlNothing EXCEPT !.name = << <<>> >>],
     [CtrlNothing EXCEPT !.discount_price = <<JsNumber(1)>>,
                         !.is_available = <<"false">>]}

\* req.query of a product list request: page and limit, when present, are
\* the strings of the query string
QueryInputs ==
    [page  : {<<>>} \cup {<<JsString(n)>> : n \in 1..MaxPage},
     limit : {<<>>} \cup {<<JsString(n)>> : n \in 1..MaxLimit}]

\* sort columns as callers may send them: the four of the catalogue's
\* sort options, and another column of the table
SortFields == {"name", "price", "category", "created_at"}
SortInputs == SortFields \cup {"id"}

\* page and limit as callers may send them, valid or not
PageInputs  == 0..MaxPage
LimitInputs == 0..MaxLimit

OptionInputs ==
    [page : PageInputs, limit : LimitInputs, search : {<<>>, TextA},
     category : {<<>>}, sortBy : SortInputs, order : {"asc", "desc"}]

\* an optional argument is <<>> when it is not given, <<v>> when it is v
NoFilters ==
    [startDate |-> <<>>, endDate |-> <<>>, status |-> <<>>, paymentMethod |-> <<>>]

FilterInputs ==
    {NoFilters,
     [NoFilters EXCEPT !.status = <<"pending">>],
     [NoFilters EXCEPT !.paymentMethod = <<"card">>],
     [NoFilters EXCEPT !.startDate = <<0>>, !.endDate = <<0>>],
     [NoFilters EXCEPT !.startDate = <<1>>, !.endDate = <<0>>]}

\* the days on which statistics are asked for (day 0 is 2023-03-01, day 365
\* is 2024-02-29) and the ages in days of the sale they look back at
TodayInputs == {364, 365, 366, 730, 731}

AgeInputs == {0, 1, 6, 7, 29, 30, 364, 365, 366}

\* filters that bound the creation date: below only, above only, both
DateFilterInputs ==
    {[NoFilters EXCEPT !.startDate = <<MaxDay>>],
     [NoFilters EXCEPT !.endDate = <<0>>],
     [NoFilters EXCEPT !.startDate = <<0>>, !.endDate = <<MaxDay>>],
     [NoFilters EXCEPT !.startDate = <<MaxDay>>, !.endDate = <<MaxDay>>]}

(***************************************************************************)
(* Helpers over sequences (Array.prototype.reduce / map)                   *)
(***************************************************************************)
RECURSIVE SumField(_, _)
SumField(rows, field) ==
    IF rows = <<>> THEN 0
    ELSE Head(rows)[field] + SumField(Tail(rows), field)

RECURSIVE Reverse(_)
Reverse(s) == IF s = <<>> THEN <<>> ELSE Append(Reverse(Tail(s)), Head(s))

IdsOf(rows) == {rows[i].id : i \in 1..Len(rows)}

(***************************************************************************)
(* Query builder: filters are applied one after the other to the rows      *)
(***************************************************************************)
Compare(a, operator, b) ==
    CASE operator = "eq"  -> a = b
      [] operator = "neq" -> a # b
      [] operator = "gte" -> a >= b
      [] operator = "lte" -> a <= b

Filter(rows, column, operator, value) ==
    SelectSeq(rows, LAMBDA r : Compare(r[column], operator, value))

\* .order('created_at', { ascending: false }): rows are stored in creation
\* order, so the newest-first order is the reverse of the table order.
OrderCreatedDesc(rows) == Reverse(rows)

\* items:sale_items(...) : the embedded rows of one sale
ItemsOfSale(id) == SelectSeq(sale_items, LAMBDA it : it.sale_id = id)

\* a sale row with its embedded items
Expand(s) ==
    [id |-> s.id, total |-> s.total, status |-> s.status,
     payment_method |-> s.payment_method, created_at |-> s.created_at,
     items |-> ItemsOfSale(s.id)]

ExpandAll(rows) == [i \in 1..Len(rows) |-> Expand(rows[i])]

\* text.ilike.%part% on case-folded text
Contains(text, part) ==
    \E i \in 0..(Len(text) - Len(part)) : SubSeq(text, i + 1, i + Len(part)) = part

\* the collation order of text
RECURSIVE TextLess(_, _)
TextLess(a, b) ==
    IF b = <<>> THEN FALSE
    ELSE IF a = <<>> THEN TRUE
    ELSE IF Head(a) # Head(b) THEN Head(a) < Head(b)
    ELSE TextLess(Tail(a), Tail(b))

\* does row a come strictly before row b under .order(column, { ascending })
Before(column, ascending, a, b) ==
    LET less(x, y) == IF column \in {"name", "category", "description"}
                      THEN TextLess(x[column], y[column])
                      ELSE x[column] < y[column]
    IN  IF ascending THEN less(a, b) ELSE less(b, a)

RECURSIVE InsertRow(_, _, _, _)
InsertRow(row, sorted, column, ascending) ==
    IF sorted = <<>> THEN <<row>>
    ELSE IF Before(column, ascending, row, Head(sorted))
         THEN <<row>> \o sorted
         ELSE <<Head(sorted)>> \o InsertRow(row, Tail(sorted), column, ascending)

\* .order(column, { ascending })
RECURSIVE Order(_, _, _)
Order(rows, column, ascending) ==
    IF rows = <<>> THEN <<>>
    ELSE InsertRow(rows[Len(rows)],
                   Order(SubSeq(rows, 1, Len(rows) - 1), column, ascending),
                   column, ascending)

\* .range(from, to): the rows at the 0-based positions from..to
Range(rows, from, to) ==
    LET first == IF from < 0 THEN 0 ELSE from
        last  == IF to > Len(rows) - 1 THEN Len(rows) - 1 ELSE to
    IN  IF last < first THEN <<>>
        ELSE [i \in 1..(last - first + 1) |-> rows[first + i]]

\* the offset with the page taken as 0-based
Offset_zeroBased(page, limit) == page * limit

\* const offset = (page - 1) * limit
Offset(page, limit) == (page - 1) * limit

\* Math.ceil(count / limit): not a finite number when limit is 0
MathCeil(count, limit) ==
    IF limit = 0 THEN (IF count = 0 THEN "NaN" ELSE "Infinity")
    ELSE IF limit > 0 THEN (count + limit - 1) \div limit
    ELSE 0 - (count \div (0 - limit))

\* if (value) ...: is the optional argument given
Given(option) == option # <<>>

(***************************************************************************)
(* Initial state: empty tables, no call in progress                        *)
(***************************************************************************)
IdleCreate == [pc |-> "idle", items |-> <<>>, sale |-> <<>>]

IdleCtrl == [pc |-> "idle", id |-> 0, productData |-> <<>>]

IdleStats == [pc |-> "idle", period |-> "day", rows |-> <<>>, total |-> 0]

Response(op, outcome, storeCalls, data) ==
    [op |-> op, outcome |-> outcome, storeCalls |-> storeCalls, data |-> data]

Init ==
    /\ sales = <<>>
    /\ sale_items = <<>>
    /\ products = <<>>
    /\ product_seq = 0
    /\ ct = IdleCtrl
    /\ today = 0
    /\ cs = IdleCreate
    /\ st = IdleStats
    /\ resp = Response("none", "none", 0, <<>>)

(***************************************************************************)
(* getSaleById(id): one round trip; .single() turns "no row" into an error *)
(***************************************************************************)
GetSaleByIdQuery(id) == Filter(sales, "id", "eq", id)

\* if (error) throw error: the no-row error is thrown like any other
getSaleById(id) ==
    /\ \/ /\ Len(GetSaleByIdQuery(id)) = 1
          /\ resp' = Response("getSaleById", "ok", 1,
                               <<Expand(GetSaleByIdQuery(id)[1])>>)
       \/ /\ Len(GetSaleByIdQuery(id)) # 1
          /\ resp' = Response("getSaleById", "PGRST116", 1, <<>>)
       \/ resp' = Response("getSaleById", "error", 1, <<>>)
    /\ UNCHANGED <<product_seq, ct, sales, sale_items, today, cs, st, products>>

(***************************************************************************)
(* getAllSales(page, limit, filters): one round trip                       *)
(***************************************************************************)
\* the filters are applied to the query one after the other; the date
\* bounds only when both are given.  (A sale carries no customer here, and
\* filters.customerId is never given.)
SalesDateFiltered(rows, filters) ==
    IF Given(filters.startDate) /\ Given(filters.endDate)
    THEN Filter(Filter(rows, "created_at", "gte", filters.startDate[1]),
                "created_at", "lte", filters.endDate[1])
    ELSE rows

SalesStatusFiltered(rows, filters) ==
    IF Given(filters.status) THEN Filter(rows, "status", "eq", filters.status[1])
    ELSE rows

SalesMethodFiltered(rows, filters) ==
    IF Given(filters.paymentMethod)
    THEN Filter(rows, "payment_method", "eq", filters.paymentMethod[1])
    ELSE rows

AllSalesQuery(filters) ==
    OrderCreatedDesc(
        SalesMethodFiltered(
            SalesStatusFiltered(SalesDateFiltered(sales, filters), filters),
            filters))

getAllSales(page, limit, filters) ==
    /\ \/ resp' = Response("getAllSales", "ok", 1,
                   <<[sales |-> Range(AllSalesQuery(filters), Offset(page, limit),
                                      Offset(page, limit) + limit - 1),
                      total |-> Len(AllSalesQuery(filters)),
                      page |-> page,
                      limit |-> limit,
                      totalPages |-> MathCeil(Len(AllSalesQuery(filters)), limit)]>>)
       \/ resp' = Response("getAllSales", "error", 1, <<>>)
    /\ UNCHANGED <<product_seq, ct, sales, sale_items, today, cs, st, products>>

(***************************************************************************)
(* The product model (productModel.js)                                     *)
(***************************************************************************)
\* the row the store returns for insert([productData]).select()
\* (the table gives the row its id and its creation date; the columns are
\* those of productData)
InsertedProduct(productData) ==
    [id |-> product_seq + 1, created_at |-> today] @@ productData

createProduct(productData) ==
    /\ \/ /\ product_seq < MaxProducts
          /\ products' = Append(products, InsertedProduct(productData))
          /\ product_seq' = product_seq + 1
          /\ resp' = Response("createProduct", "ok", 1,
                               <<InsertedProduct(productData)>>)
       \/ /\ products' = products
          /\ product_seq' = product_seq
          /\ resp' = Response("createProduct", "error", 1, <<>>)
    /\ UNCHANGED <<ct, sales, sale_items, today, cs, st>>

\* update(productData).eq('id', id): the columns of productData replace
\* those of the row with that id
UpdatedProducts(id, productData) ==
    [i \in 1..Len(products) |->
        IF products[i].id = id THEN productData @@ products[i] ELSE products[i]]

\* an update that also rewrites the price of the product's sale items
updateProduct_repricing(id, productData) ==
    /\ products' = UpdatedProducts(id, productData)
    /\ sale_items' =
          [i \in 1..Len(sale_items) |->
              IF sale_items[i].product_id = id /\ "price" \in DOMAIN productData
              THEN [sale_items[i] EXCEPT
                      !.price = productData.price,
                      !.subtotal = productData.price * sale_items[i].quantity]
              ELSE sale_items[i]]
    /\ resp' = Response("updateProduct", "ok", 1,
                         Filter(UpdatedProducts(id, productData), "id", "eq", id))
    /\ UNCHANGED <<product_seq, ct, sales, today, cs, st>>

\* updateProduct(id, productData) of productModel.js: return data[0]
updateProduct(id, productData) ==
    /\ \/ /\ products' = UpdatedProducts(id, productData)
          /\ resp' = Response("updateProduct", "ok", 1,
                               Filter(UpdatedProducts(id, productData), "id", "eq", id))
       \/ /\ products' = products
          /\ resp' = Response("updateProduct", "error", 1, <<>>)
    /\ UNCHANGED <<product_seq, ct, sales, sale_items, today, cs, st>>

\* delete().eq('id', id): the rows that remain
DeletedProducts(id) == SelectSeq(products, LAMBDA r : r.id # id)

(***************************************************************************)
(* The product controller (productController.js)                           *)
(***************************************************************************)
\* !value of JavaScript, negated: the value counts as present
TextTruthy(text) == Given(text) /\ text[1] # <<>>

NumTruthy(number) == Given(number) /\ (number[1].t = "string" \/ number[1].n # 0)

parseFloat(value) == value.n

\* productData after the conversions of the numeric and the boolean
\* fields: the columns that are sent to the store
Columns(productData) ==
    [f \in {g \in DOMAIN productData : Given(productData[g])} |->
        CASE f \in {"name", "category"} -> productData[f][1]
          [] f \in {"price", "discount_price"} -> parseFloat(productData[f][1])
          [] OTHER -> productData[f][1] \in {"'true'", "true"}]

\* createProduct(productData) of the controller, without an image file
productController_createProduct(productData) ==
    IF \/ ~TextTruthy(productData.name)
       \/ ~NumTruthy(productData.price)
       \/ ~TextTruthy(productData.category)
    THEN /\ resp' = Response("productController.createProduct",
                              "Required fields missing", 0, <<>>)
         /\ UNCHANGED <<products, product_seq, ct, sales, sale_items, today, cs, st>>
    ELSE createProduct(Columns(productData))

\* the existence check left out: the call goes on to the update
productController_updateProduct_getProductById_unchecked(id, productData) ==
    /\ ct.pc = "idle"
    /\ ct' = [pc |-> "update", id |-> id, productData |-> <<productData>>]
    /\ resp' = resp
    /\ UNCHANGED <<products, product_seq, sales, sale_items, today, cs, st>>

\* updateProduct(id, productData) of the controller, first round trip: the
\* existence check, then the check of the required fields
productController_updateProduct_getProductById(id, productData) ==
    /\ ct.pc = "idle"
    /\ \/ /\ resp' = Response("productController.updateProduct", "error", 1, <<>>)
          /\ ct' = IdleCtrl
       \/ /\ id \notin IdsOf(products)
          /\ resp' = Response("productController.updateProduct", "ok", 1, <<>>)
          /\ ct' = IdleCtrl
       \/ /\ id \in IdsOf(products)
          /\ IF \/ Given(productData.name) /\ ~TextTruthy(productData.name)
                \/ Given(productData.price) /\ ~NumTruthy(productData.price)
                \/ Given(productData.category) /\ ~TextTruthy(productData.category)
             THEN /\ resp' = Response("productController.updateProduct",
                                       "Required fields cannot be empty", 1, <<>>)
                  /\ ct' = IdleCtrl
             ELSE /\ resp' = resp
                  /\ ct' = [pc |-> "update", id |-> id,
                            productData |-> <<productData>>]
    /\ UNCHANGED <<products, product_seq, sales, sale_items, today, cs, st>>

\* second round trip: return await productModel.updateProduct(id, productData)
productController_updateProduct_updateProduct ==
    /\ ct.pc = "update"
    /\ \/ /\ products' = UpdatedProducts(ct.id, Columns(ct.productData[1]))
          /\ resp' = Response("productController.updateProduct", "ok", 2,
                 Filter(UpdatedProducts(ct.id, Columns(ct.productData[1])),
                        "id", "eq", ct.id))
       \/ /\ products' = products
          /\ resp' = Response("productController.updateProduct", "error", 2, <<>>)
    /\ ct' = IdleCtrl
    /\ UNCHANGED <<product_seq, sales, sale_items, today, cs, st>>

productController_updateProduct ==
    \/ \E id \in 1..MaxProducts, productData \in CtrlUpdateInputs :
           productController_updateProduct_getProductById(id, productData)
    \/ productController_updateProduct_updateProduct

\* deleteProduct(id) of the controller, first round trip: the existence check
productController_deleteProduct_getProductById(id) ==
    /\ ct.pc = "idle"
    /\ \/ /\ resp' = Response("productController.deleteProduct", "error", 1, <<>>)
          /\ ct' = IdleCtrl
       \/ /\ id \notin IdsOf(products)
          /\ resp' = Response("productController.deleteProduct", "ok", 1, <<FALSE>>)
          /\ ct' = IdleCtrl
       \/ /\ id \in IdsOf(products)
          /\ resp' = resp
          /\ ct' = [pc |-> "delete", id |-> id, productData |-> <<>>]
    /\ UNCHANGED <<products, product_seq, sales, sale_items, today, cs, st>>

\* second round trip: return await productModel.deleteProduct(id)
productController_deleteProduct_deleteProduct ==
    /\ ct.pc = "delete"
    /\ \/ /\ products' = DeletedProducts(ct.id)
          /\ resp' = Response("productController.deleteProduct", "ok", 2, <<TRUE>>)
       \/ /\ products' = products
          /\ resp' = Response("productController.deleteProduct", "error", 2, <<>>)
    /\ ct' = IdleCtrl
    /\ UNCHANGED <<product_seq, sales, sale_items, today, cs, st>>

productController_deleteProduct ==
    \/ \E id \in 1..MaxProducts : productController_deleteProduct_getProductById(id)
    \/ productController_deleteProduct_deleteProduct

\* query.ilike('name', `%${search}%`) when search is given
ProductsSearched(rows, search) ==
    IF search # <<>> THEN SelectSeq(rows, LAMBDA r : Contains(r.name, search))
    ELSE rows

\* query.eq('category', category) when category is given
ProductsOfCategory(rows, category) ==
    IF category # <<>> THEN Filter(rows, "category", "eq", category) ELSE rows

AllProductsQuery(search, category) ==
    OrderCreatedDesc(ProductsOfCategory(ProductsSearched(products, search), category))

\* the envelope of the product lists
ProductPage(rows, page, limit) ==
    [products |-> Range(rows, Offset(page, limit), Offset(page, limit) + limit - 1),
     pagination |-> [page |-> page, limit |-> limit, total |-> Len(rows),
                     pages |-> MathCeil(Len(rows), limit)]]

getAllProducts(page, limit, search, category) ==
    /\ \/ resp' = Response("getAllProducts", "ok", 1,
                   <<ProductPage(AllProductsQuery(search, category), page, limit)>>)
       \/ resp' = Response("getAllProducts", "error", 1, <<>>)
    /\ UNCHANGED <<product_seq, ct, sales, sale_items, today, cs, st, products>>

\* .eq('category', category).order('name', { ascending: true })
ProductsByCategoryQuery(category) ==
    Order(Filter(products, "category", "eq", category), "name", TRUE)

getProductsByCategory(category, page, limit) ==
    /\ \/ resp' = Response("getProductsByCategory", "ok", 1,
                   <<ProductPage(ProductsByCategoryQuery(category), page, limit)>>)
       \/ resp' = Response("getProductsByCategory", "error", 1, <<>>)
    /\ UNCHANGED <<product_seq, ct, sales, sale_items, today, cs, st, products>>

(***************************************************************************)
(* The product routes (api/products.js): page and limit come from the      *)
(* query string and are handed to the model as they are                    *)
(***************************************************************************)
RECURSIVE Digits(_)
Digits(n) == IF n < 10 THEN 1 ELSE 1 + Digits(n \div 10)

RECURSIVE Power10(_)
Power10(k) == IF k = 0 THEN 1 ELSE 10 * Power10(k - 1)

\* number + value of JavaScript, for a number >= 0: the sum when the value
\* is a number, the two numerals one after the other when it is a string
JsPlus(number, value) ==
    IF value.t = "string"
    THEN JsString(number * Power10(Digits(value.n)) + value.n)
    ELSE JsNumber(number + value.n)

\* const { page = 1, limit = 10 } = req.query
DefaultLimit == 10

QueryPage(query) == IF Given(query.page) THEN query.page[1] ELSE JsNumber(1)

QueryLimit(query) ==
    IF Given(query.limit) THEN query.limit[1] ELSE JsNumber(DefaultLimit)

\* const offset = (page - 1) * limit
QueryOffset(query) == (QueryPage(query).n - 1) * QueryLimit(query).n

\* offset + limit - 1
QueryRangeEnd(query) == JsPlus(QueryOffset(query), QueryLimit(query)).n - 1

\* the envelope getAllProducts / getProductsByCategory return for req.query
QueryResult(rows, query) ==
    [products |-> Range(rows, QueryOffset(query), QueryRangeEnd(query)),
     pagination |-> [page |-> QueryPage(query).n, limit |-> QueryLimit(query).n,
                     total |-> Len(rows),
                     pages |-> MathCeil(Len(rows), QueryLimit(query).n)]]

\* router.get('/'): 200 with the result, 500 when the model throws
router_get(query) ==
    /\ \/ resp' = Response("GET /products", "ok", 1,
                            <<QueryResult(AllProductsQuery(<<>>, <<>>), query)>>)
       \/ resp' = Response("GET /products", "error", 1, <<>>)
    /\ UNCHANGED <<product_seq, ct, sales, sale_items, today, cs, st, products>>

\* router.get('/category/:category')
router_get_category(category, query) ==
    /\ \/ resp' = Response("GET /products/category/:category", "ok", 1,
                            <<QueryResult(ProductsByCategoryQuery(category), query)>>)
       \/ resp' = Response("GET /products/category/:category", "error", 1, <<>>)
    /\ UNCHANGED <<product_seq, ct, sales, sale_items, today, cs, st, products>>

\* .eq('is_featured', true).eq('is_available', true)
\* .order('created_at', { ascending: false })
FeaturedQuery ==
    OrderCreatedDesc(Filter(Filter(products, "is_featured", "eq", TRUE),
                            "is_available", "eq", TRUE))

\* getFeaturedProducts(limit): .limit(limit), return data
getFeaturedProducts(limit) ==
    /\ \/ resp' = Response("getFeaturedProducts", "ok", 1,
                            <<Range(FeaturedQuery, 0, limit - 1)>>)
       \/ resp' = Response("getFeaturedProducts", "error", 1, <<>>)
    /\ UNCHANGED <<product_seq, ct, sales, sale_items, today, cs, st, products>>

\* .eq('is_available', true).order('name', { ascending: true })
AvailableQuery == Order(Filter(products, "is_available", "eq", TRUE), "name", TRUE)

\* getAvailableProducts(page, limit): a page of the available products
getAvailableProducts(page, limit) ==
    /\ \/ resp' = Response("getAvailableProducts", "ok", 1,
                            <<ProductPage(AvailableQuery, page, limit)>>)
       \/ resp' = Response("getAvailableProducts", "error", 1, <<>>)
    /\ UNCHANGED <<product_seq, ct, sales, sale_items, today, cs, st, products>>

\* getProductById(id) of productModel.js: the store's no-row error is
\* answered with null, any other error is thrown
getProductById(id) ==
    /\ \/ /\ Len(Filter(products, "id", "eq", id)) = 1
          /\ resp' = Response("getProductById", "ok", 1,
                               Filter(products, "id", "eq", id))
       \/ /\ Len(Filter(products, "id", "eq", id)) # 1
          /\ resp' = Response("getProductById", "ok", 1, <<>>)
       \/ resp' = Response("getProductById", "error", 1, <<>>)
    /\ UNCHANGED <<product_seq, ct, sales, sale_items, today, cs, st, products>>

\* productModel.getProductById(id) of the object in salesModel.js:
\* if (error) throw error, whatever the error
productModel_getProductById(id) ==
    /\ \/ /\ Len(Filter(products, "id", "eq", id)) = 1
          /\ resp' = Response("productModel.getProductById", "ok", 1,
                               Filter(products, "id", "eq", id))
       \/ /\ Len(Filter(products, "id", "eq", id)) # 1
          /\ resp' = Response("productModel.getProductById", "PGRST116", 1, <<>>)
       \/ resp' = Response("productModel.getProductById", "error", 1, <<>>)
    /\ UNCHANGED <<product_seq, ct, sales, sale_items, today, cs, st, products>>

(***************************************************************************)
(* ProductModel.getAllProducts(options) of the class with sort options     *)
(***************************************************************************)
\* query.or(`name.ilike.%${search}%,description.ilike.%${search}%`)
ProductsSearchedAnywhere(rows, search) ==
    IF search # <<>>
    THEN SelectSeq(rows, LAMBDA r : Contains(r.name, search)
                                      \/ Contains(r.description, search))
    ELSE rows

\* query.order(sortBy, { ascending: order === 'asc' })
ProductsQuery(options) ==
    Order(ProductsOfCategory(ProductsSearchedAnywhere(products, options.search),
                             options.category),
          options.sortBy, options.order = "asc")

ProductModel_getAllProducts(options) ==
    /\ \/ resp' = Response("ProductModel.getAllProducts", "ok", 1,
                   <<[data |-> Range(ProductsQuery(options),
                                     Offset(options.page, options.limit),
                                     Offset(options.page, options.limit)
                                       + options.limit - 1),
                      pagination |->
                        [page |-> options.page, limit |-> options.limit,
                         total |-> Len(ProductsQuery(options)),
                         totalPages |-> MathCeil(Len(ProductsQuery(options)),
                                                 options.limit)]]>>)
       \/ resp' = Response("ProductModel.getAllProducts", "error", 1, <<>>)
    /\ UNCHANGED <<product_seq, ct, sales, sale_items, today, cs, st, products>>

(***************************************************************************)
(* createSale(saleData, items)                                             *)
(***************************************************************************)
\* the row the store returns for insert([saleData]).select()
InsertedSale(saleData) ==
    [id |-> Len(sales) + 1, total |-> saleData.total, status |-> saleData.status,
     payment_method |-> saleData.payment_method, created_at |-> today]

\* the row with the subtotal added up instead of multiplied
SaleItemRow_sum(sale_id, item) ==
    [sale_id |-> sale_id, product_id |-> item.product_id,
     quantity |-> item.quantity, price |-> item.price,
     subtotal |-> item.price + item.quantity]

\* items.map(item => ({ sale_id, product_id, quantity, price, subtotal }))
SaleItemRow(sale_id, item) ==
    [sale_id |-> sale_id, product_id |-> item.product_id,
     quantity |-> item.quantity, price |-> item.price,
     subtotal |-> item.price * item.quantity]

SaleItems(sale_id, items) ==
    [i \in 1..Len(items) |-> SaleItemRow(sale_id, items[i])]

\* the first round trip without `if (saleError) throw saleError`
createSale_insertSale_unchecked(saleData, items, cap) ==
    /\ cs.pc = "idle"
    /\ \/ /\ Len(sales) < cap
          /\ sales' = Append(sales, InsertedSale(saleData))
       \/ sales' = sales
    /\ cs' = [pc |-> "insert_items", items |-> items,
              sale |-> <<InsertedSale(saleData)>>]
    /\ resp' = resp
    /\ UNCHANGED <<product_seq, ct, sale_items, today, st, products>>

\* first round trip: insert the header; if (saleError) throw saleError
createSale_insertSale(saleData, items, cap) ==
    /\ cs.pc = "idle"
    /\ \/ /\ Len(sales) < cap
          /\ sales' = Append(sales, InsertedSale(saleData))
          /\ cs' = [pc |-> "insert_items", items |-> items,
                    sale |-> <<InsertedSale(saleData)>>]
          /\ resp' = resp
       \/ /\ sales' = sales
          /\ cs' = IdleCreate
          /\ resp' = Response("createSale", "saleError", 1, <<>>)
    /\ UNCHANGED <<product_seq, ct, sale_items, today, st, products>>

\* second round trip: insert the items; if (itemsError) throw itemsError
createSale_insertItems ==
    /\ cs.pc = "insert_items"
    /\ \/ /\ sale_items' = sale_items \o SaleItems(cs.sale[1].id, cs.items)
          /\ cs' = [cs EXCEPT !.pc = "fetch"]
          /\ resp' = resp
       \/ /\ sale_items' = sale_items
          /\ cs' = IdleCreate
          /\ resp' = Response("createSale", "itemsError", 2, <<>>)
    /\ UNCHANGED <<product_seq, ct, sales, today, st, products>>

\* third round trip: return await salesModel.getSaleById(sale[0].id)
createSale_getSaleById ==
    /\ cs.pc = "fetch"
    /\ \/ /\ Len(GetSaleByIdQuery(cs.sale[1].id)) = 1
          /\ resp' = Response("createSale", "ok", 3,
                               <<Expand(GetSaleByIdQuery(cs.sale[1].id)[1])>>)
       \/ resp' = Response("createSale", "error", 3, <<>>)
    /\ cs' = IdleCreate
    /\ UNCHANGED <<product_seq, ct, sales, sale_items, today, st, products>>

createSale(headers, itemLists, cap) ==
    \/ \E saleData \in headers, items \in itemLists :
           createSale_insertSale(saleData, items, cap)
    \/ createSale_insertItems
    \/ createSale_getSaleById

(***************************************************************************)
(* updateSaleStatus(id, status): one round trip, update ... eq('id', id)   *)
(***************************************************************************)
\* the update without the eq('id', id) filter
UpdatedSales_all(id, status) ==
    [i \in 1..Len(sales) |-> [sales[i] EXCEPT !.status = status]]

\* update({ status }).eq('id', id): the rows after the update
UpdatedSales(id, status) ==
    [i \in 1..Len(sales) |->
        IF sales[i].id = id THEN [sales[i] EXCEPT !.status = status] ELSE sales[i]]

\* return data[0]: the updated row, or undefined when no row matched
updateSaleStatus(id, status) ==
    /\ \/ /\ sales' = UpdatedSales(id, status)
          /\ resp' = Response("updateSaleStatus", "ok", 1,
                               Filter(UpdatedSales(id, status), "id", "eq", id))
       \/ /\ sales' = sales
          /\ resp' = Response("updateSaleStatus", "error", 1, <<>>)
    /\ UNCHANGED <<product_seq, ct, sale_items, today, cs, st, products>>

(***************************************************************************)
(* getSalesStats(period)                                                   *)
(***************************************************************************)
\* current_date - interval '1 year': the same day of the previous year.
\* Day 0 is 2023-03-01, so 2024-02-29 is day 365 and the year that ends on
\* any of the days 365..730 contains that leap day.
OneYearBefore(current_date) ==
    IF current_date \in 365..730 THEN current_date - 366 ELSE current_date - 365

\* the switch on period: the expression placed in timeFilter, evaluated on
\* a row's created_at::date
TimeFilter(period, created_at, current_date) ==
    CASE period = "day"   -> created_at = current_date
      [] period = "week"  -> created_at > current_date - 7
      [] period = "month" -> created_at > current_date - 30
      [] period = "year"  -> created_at > OneYearBefore(current_date)
      [] OTHER            -> created_at = current_date

\* the query without its status filter
StatsQuery_anyStatus(period) ==
    SelectSeq(sales, LAMBDA r : TimeFilter(period, r.created_at, today))

\* .filter('status', 'neq', 'cancelled').filter(timeFilter)
StatsQuery(period) ==
    SelectSeq(Filter(sales, "status", "neq", "cancelled"),
              LAMBDA r : TimeFilter(period, r.created_at, today))

\* a number as the quotient of two integers, in lowest terms; a zero
\* denominator is the result of a division by zero (NaN or Infinity)
RECURSIVE GCD(_, _)
GCD(a, b) == IF b = 0 THEN a ELSE GCD(b, a % b)

Num(n) == [num |-> n, den |-> 1]

Quotient(a, b) ==
    IF b = 0 THEN [num |-> a, den |-> 0]
    ELSE [num |-> a \div GCD(a, b), den |-> b \div GCD(a, b)]

\* the average without its guard against a count of zero
Average_unguarded(total, count) == Quotient(total, count)

\* const average = count > 0 ? total / count : 0
Average(total, count) == IF count > 0 THEN Quotient(total, count) ELSE Num(0)

\* first round trip: the rows whose total is summed
getSalesStats_queryTotal(period) ==
    /\ st.pc = "idle"
    /\ \/ /\ st' = [pc |-> "count", period |-> period,
                    rows |-> StatsQuery(period),
                    total |-> SumField(StatsQuery(period), "total")]
          /\ resp' = resp
       \/ /\ st' = IdleStats
          /\ resp' = Response("getSalesStats", "error", 1, <<>>)
    /\ UNCHANGED <<product_seq, ct, sales, sale_items, today, cs, products>>

\* second round trip: the exact count, then the average and the result
StatsResult(period, total, count) ==
    [period |-> period, totalSales |-> total, count |-> count,
     average |-> Average(total, count)]

getSalesStats_queryCount ==
    /\ st.pc = "count"
    /\ \/ resp' = Response("getSalesStats", "ok", 2,
                   <<StatsResult(st.period, st.total, Len(StatsQuery(st.period)))>>)
       \/ resp' = Response("getSalesStats", "error", 2, <<>>)
    /\ st' = IdleStats
    /\ UNCHANGED <<product_seq, ct, sales, sale_items, today, cs, products>>

getSalesStats ==
    \/ \E period \in Periods : getSalesStats_queryTotal(period)
    \/ getSalesStats_queryCount

(***************************************************************************)
(* getSalesReport(startDate, endDate): one round trip, then the fold       *)
(***************************************************************************)
ReportQuery(startDate, endDate) ==
    ExpandAll(OrderCreatedDesc(
        Filter(Filter(sales, "created_at", "gte", startDate),
               "created_at", "lte", endDate)))

\* the fold with the method's total assigned instead of accumulated
RECURSIVE GroupByPaymentMethod_assign(_, _)
GroupByPaymentMethod_assign(data, acc) ==
    IF data = <<>> THEN acc
    ELSE LET sale   == Head(data)
             method == sale.payment_method
             acc1   == IF method \in DOMAIN acc THEN acc
                       ELSE acc @@ (method :> [count |-> 0, total |-> 0])
             acc2   == [acc1 EXCEPT ![method] =
                           [count |-> @.count + 1, total |-> sale.total]]
         IN  GroupByPaymentMethod_assign(Tail(data), acc2)

\* data.reduce((acc, sale) => {...}, {})
RECURSIVE GroupByPaymentMethod(_, _)
GroupByPaymentMethod(data, acc) ==
    IF data = <<>> THEN acc
    ELSE LET sale   == Head(data)
             method == sale.payment_method
             acc1   == IF method \in DOMAIN acc THEN acc
                       ELSE acc @@ (method :> [count |-> 0, total |-> 0])
             acc2   == [acc1 EXCEPT ![method] =
                           [count |-> @.count + 1, total |-> @.total + sale.total]]
         IN  GroupByPaymentMethod(Tail(data), acc2)

\* the report whose grouping leaves the cancelled sales out while the
\* totals count them
Report_grouped(startDate, endDate, data) ==
    [startDate |-> startDate, endDate |-> endDate,
     totalSales |-> Len(data),
     totalRevenue |-> SumField(data, "total"),
     paymentMethods |->
         GroupByPaymentMethod(SelectSeq(data, LAMBDA s : s.status # "cancelled"),
                              <<>>),
     sales |-> data]

Report(startDate, endDate, data) ==
    [startDate |-> startDate, endDate |-> endDate,
     totalSales |-> Len(data),
     totalRevenue |-> SumField(data, "total"),
     paymentMethods |-> GroupByPaymentMethod(data, <<>>),
     sales |-> data]

getSalesReport(startDate, endDate) ==
    /\ \/ resp' = Response("getSalesReport", "ok", 1,
                   <<Report(startDate, endDate, ReportQuery(startDate, endDate))>>)
       \/ resp' = Response("getSalesReport", "error", 1, <<>>)
    /\ UNCHANGED <<product_seq, ct, sales, sale_items, today, cs, st, products>>

\* The order clause names created_at only, so the store is free to return
\* sales of the same day in any order: `order` is the order it picks.
TieOrders(n) ==
    {f \in [1..n -> 1..n] : \A i \in 1..n, j \in 1..n : f[i] = f[j] => i = j}

Permute(rows, order) == [i \in 1..Len(rows) |-> rows[order[i]]]

getSalesReport_ordered(startDate, endDate, order) ==
    /\ resp' = Response("getSalesReport", "ok", 1,
                 <<Report(startDate, endDate,
                          Permute(ReportQuery(startDate, endDate), order))>>)
    /\ UNCHANGED <<product_seq, ct, sales, sale_items, today, cs, st, products>>

(***************************************************************************)
(* The calendar: current_date moves forward                                *)
(***************************************************************************)
Tick ==
    /\ today < MaxDay
    /\ today' = today + 1
    /\ UNCHANGED <<product_seq, ct, sales, sale_items, cs, st, resp, products>>

(***************************************************************************)
(* Specifications                                                          *)
(***************************************************************************)
GetSaleById == \E id \in 1..MaxSales : getSaleById(id)

UpdateSaleStatus ==
    \E id \in 1..MaxSales, status \in StatusInputs : updateSaleStatus(id, status)

GetSalesReport == \E startDate \in Days, endDate \in Days :
                      getSalesReport(startDate, endDate)

\* sale creation with rich item lists, read concurrently
Next ==
    \/ createSale(OrderDataInputs, ItemListInputs, MaxOrders)
    \/ \E id \in 1..MaxOrders : getSaleById(id)
    \/ getSalesReport(0, 0)

Spec == Init /\ [][Next]_vars

\* the life of sales: creation, status changes, the passing of days
NextStatus ==
    \/ createSale(CashDataInputs, OneItemInputs, MaxSales)
    \/ UpdateSaleStatus
    \/ GetSaleById

SpecStatus == Init /\ [][NextStatus]_vars

\* statistics computed while sales are created and their status changes
NextStats ==
    \/ createSale(CashDataInputs, OneItemInputs, MaxSales)
    \/ \E id \in 1..MaxSales : updateSaleStatus(id, "cancelled")
    \/ Tick
    \/ getSalesStats

SpecStats == Init /\ [][NextStats]_vars

\* reports computed while sales are created and their status changes
NextReport ==
    \/ createSale(SaleDataInputs, OneItemInputs, MaxSales)
    \/ \E id \in 1..MaxSales : updateSaleStatus(id, "cancelled")
    \/ Tick
    \/ GetSalesReport

SpecReport == Init /\ [][NextReport]_vars

\* the lists, read while sales and products are created
GetAllSales ==
    \E page \in PageInputs, limit \in LimitInputs, filters \in FilterInputs :
        getAllSales(page, limit, filters)

GetAllProducts ==
    \E page \in PageInputs, limit \in LimitInputs,
       search \in {<<>>, TextA}, category \in {<<>>, TextA} :
        getAllProducts(page, limit, search, category)

GetProductsByCategory ==
    \E category \in {TextA, TextB}, page \in PageInputs, limit \in LimitInputs :
        getProductsByCategory(category, page, limit)

NextList ==
    \/ createSale(ListDataInputs, OneItemInputs, MaxSales)
    \/ \E productData \in ProductInputs : createProduct(productData)
    \/ GetAllSales
    \/ GetAllProducts
    \/ GetProductsByCategory

SpecList == Init /\ [][NextList]_vars

\* sales created on different days, listed by date
NextDates ==
    \/ createSale(ListDataInputs, OneItemInputs, MaxSales)
    \/ Tick
    \/ \E page \in 1..MaxPage, limit \in 1..MaxLimit, filters \in DateFilterInputs :
           getAllSales(page, limit, filters)

SpecDates == Init /\ [][NextDates]_vars

\* statistics asked for on a given day over one sale of a given age
InitWindows ==
    /\ today \in TodayInputs
    /\ \E age \in AgeInputs :
          /\ age <= today
          /\ sales = <<[id |-> 1, total |-> 1, status |-> "pending",
                        payment_method |-> "cash", created_at |-> today - age]>>
    /\ sale_items = <<SaleItemRow(1, OneItemInputs_item)>>
    /\ products = <<>>
    /\ product_seq = 0
    /\ ct = IdleCtrl
    /\ cs = IdleCreate
    /\ st = IdleStats
    /\ resp = Response("none", "none", 0, <<>>)

NextWindows == getSalesStats

SpecWindows == InitWindows /\ [][NextWindows]_vars

\* products sold and repriced afterwards
NextSnapshot ==
    \/ \E productData \in ProductInputs : createProduct(productData)
    \/ createSale(CashDataInputs, OneItemInputs, MaxSales)
    \/ \E id \in 1..MaxProducts, productData \in PriceUpdates :
           updateProduct(id, productData)

SpecSnapshot == Init /\ [][NextSnapshot]_vars

\* the catalogue maintained through the controller
NextController ==
    \/ \E productData \in CtrlProductInputs :
           productController_createProduct(productData)
    \/ productController_updateProduct
    \/ productController_deleteProduct

SpecController == Init /\ [][NextController]_vars

\* the highlight views over products created on different days, no two of
\* the same name
NextViews ==
    \/ \E productData \in FlaggedProductInputs :
           /\ \A i \in 1..Len(products) : products[i].name # productData.name
           /\ createProduct(productData)
    \/ Tick
    \/ \E limit \in 1..MaxLimit : getFeaturedProducts(limit)
    \/ \E page \in 1..MaxPage, limit \in 1..MaxLimit :
           getAvailableProducts(page, limit)

SpecViews == Init /\ [][NextViews]_vars

\* product lists requested over HTTP from a catalogue of up to MaxRows
\* products
InitRoute ==
    /\ \E n \in 0..MaxRows : \E categories \in [1..n -> {TextA, TextB}] :
          products = [i \in 1..n |->
                         [id |-> i, created_at |-> 0, name |-> TextA,
                          description |-> <<>>, category |-> categories[i],
                          price |-> 1]]
    /\ product_seq = Len(products)
    /\ sales = <<>>
    /\ sale_items = <<>>
    /\ today = 0
    /\ cs = IdleCreate
    /\ st = IdleStats
    /\ ct = IdleCtrl
    /\ resp = Response("none", "none", 0, <<>>)

NextRoute ==
    \/ \E query \in QueryInputs : router_get(query)
    \/ \E category \in {TextA, TextB}, query \in QueryInputs :
           router_get_category(category, query)

SpecRoute == InitRoute /\ [][NextRoute]_vars

\* sale creation with item lists of every kind, read back afterwards
NextValidate ==
    \/ createSale(CashDataInputs, InvalidItemListInputs \cup OneItemInputs, MaxSales)
    \/ GetSaleById

SpecValidate == Init /\ [][NextValidate]_vars

\* the catalogue: products are created, looked up and listed
NextCatalog ==
    \/ \E productData \in ProductInputs : createProduct(productData)
    \/ \E id \in 1..MaxProducts : getProductById(id)
    \/ \E id \in 1..MaxProducts : productModel_getProductById(id)
    \/ \E options \in OptionInputs : ProductModel_getAllProducts(options)

SpecCatalog == Init /\ [][NextCatalog]_vars

(***************************************************************************)
(* Properties of sale creation (specification Spec)                        *)
(***************************************************************************)
\* an error that tells the caller that a header was left behind
PartialStateFlagged(r) == r.outcome = "compositeWriteError"

\* C1: when the header insert succeeded and the item insert fails, then as
\* createSale returns its error either the header is gone from the store or
\* the error flags the partial state.
C1_NoHeaderLeftBehind ==
    [][(cs.pc = "insert_items" /\ cs'.pc = "idle")
         => \/ cs.sale[1].id \notin IdsOf(sales')
            \/ PartialStateFlagged(resp')]_vars

\* the sales a read response shows
SalesSeen(r) ==
    IF r.outcome # "ok" THEN {}
    ELSE IF r.op = "getSalesReport" THEN IdsOf(r.data[1].sales)
    ELSE IF r.op = "getSaleById" THEN IdsOf(r.data)
    ELSE {}

ReadStep == (\E id \in 1..MaxOrders : getSaleById(id)) \/ getSalesReport(0, 0)

\* C2: no read that runs while createSale stands between its header insert
\* and its item insert shows the sale whose items are not yet persisted.
C2_VisibleTogether ==
    [][(ReadStep /\ cs.pc = "insert_items")
         => cs.sale[1].id \notin SalesSeen(resp')]_vars

\* C3: every stored sale whose items are persisted has a total equal to the
\* sum of the subtotals of its items.
C3_TotalIsSumOfSubtotals ==
    \A i \in 1..Len(sales) :
        ItemsOfSale(sales[i].id) # <<>>
          => sales[i].total = SumField(ItemsOfSale(sales[i].id), "subtotal")

\* C4: every persisted sale item has subtotal = quantity * price.
C4_SubtotalExact ==
    \A i \in 1..Len(sale_items) :
        sale_items[i].subtotal = sale_items[i].quantity * sale_items[i].price

C4_Witness ==
    /\ Len(sale_items) = MaxItems
    /\ \E i \in 1..Len(sale_items) :
          /\ sale_items[i].quantity = MaxQty
          /\ sale_items[i].price = MaxPrice
          /\ sale_items[i].subtotal = MaxQty * MaxPrice

(***************************************************************************)
(* Properties of the sale status (specification SpecStatus)                *)
(***************************************************************************)
\* C5: a status only moves pending -> completed or pending -> cancelled;
\* every other request is answered with a validation error and changes
\* nothing.
C5_StatusMachine ==
    [][\A id \in 1..MaxSales, status \in StatusInputs :
          (updateSaleStatus(id, status) /\ id \in IdsOf(sales))
            => \/ /\ sales[id].status = "pending"
                  /\ status \in {"completed", "cancelled"}
               \/ /\ sales' = sales
                  /\ resp'.outcome = "validationError"]_vars

(***************************************************************************)
(* Properties of the statistics (specification SpecStats)                  *)
(***************************************************************************)
\* the window of a period: the current day, or the trailing 7, 30, 365 days
InWindow(period, created_at, now) ==
    /\ created_at <= now
    /\ CASE period = "day"   -> created_at = now
         [] period = "week"  -> now - created_at < 7
         [] period = "month" -> now - created_at < 30
         [] period = "year"  -> now - created_at < 365

\* the stored sales that qualify for a period: in the window, not cancelled
Qualifying(period) ==
    {i \in 1..Len(sales) : /\ sales[i].status # "cancelled"
                           /\ InWindow(period, sales[i].created_at, today)}

RECURSIVE SumTotals(_)
SumTotals(S) ==
    IF S = {} THEN 0
    ELSE LET i == CHOOSE x \in S : TRUE IN sales[i].total + SumTotals(S \ {i})

C7_Average ==
    (resp.op = "getSalesStats" /\ resp.outcome = "ok")
      => LET r == resp.data[1]
         IN  /\ r.count > 0 => /\ r.average.den > 0
                               /\ r.average.num * r.count
                                     = r.totalSales * r.average.den
             /\ r.count = 0 => r.average = Num(0)
             /\ (r.count = 0 /\ r.totalSales = 0)
                   => r = [period |-> r.period, totalSales |-> 0, count |-> 0,
                           average |-> Num(0)]

C7_Witness ==
    /\ resp.op = "getSalesStats" /\ resp.outcome = "ok"
    /\ resp.data[1].count = 2
    /\ resp.data[1].totalSales = 3
    /\ resp.data[1].average = [num |-> 3, den |-> 2]

\* C8: the rows summed and the rows counted by one call are the same sales.
C8_ConsistentSnapshot ==
    [][(st.pc = "count" /\ resp'.op = "getSalesStats" /\ resp'.outcome = "ok"
          /\ st'.pc = "idle")
         => IdsOf(st.rows) = Qualifying(st.period)]_vars

(***************************************************************************)
(* Properties of the report (specification SpecReport)                     *)
(***************************************************************************)
NotCancelled(data) == SelectSeq(data, LAMBDA s : s.status # "cancelled")

MethodsOf(data) == {data[i].payment_method : i \in 1..Len(data)}

PaidBy(data, m) == SelectSeq(data, LAMBDA s : s.payment_method = m)

\* C9: the report's figures are computed over the sales in the range that
\* are not cancelled.
C9_ReportExcludesCancelled ==
    (resp.op = "getSalesReport" /\ resp.outcome = "ok")
      => LET r  == resp.data[1]
             nc == NotCancelled(r.sales)
         IN  /\ r.totalSales = Len(nc)
             /\ r.totalRevenue = SumField(nc, "total")
             /\ DOMAIN r.paymentMethods = MethodsOf(nc)
             /\ \A m \in MethodsOf(nc) :
                   /\ r.paymentMethods[m].count = Len(PaidBy(nc, m))
                   /\ r.paymentMethods[m].total = SumField(PaidBy(nc, m), "total")

\* C10: a report over a range whose start is after its end is rejected
\* with a validation error and issues no store call.
C10_InvertedRangeRejected ==
    [][\A startDate \in Days, endDate \in Days :
          (startDate > endDate /\ getSalesReport(startDate, endDate))
            => /\ resp'.outcome = "validationError"
               /\ resp'.storeCalls = 0]_vars

(***************************************************************************)
(* The report fold over any list of sales (specification SpecFold)         *)
(***************************************************************************)
\* a table of n sales made on day 0, each with its one item
SalesTable(headers) ==
    [i \in 1..Len(headers) |->
        [id |-> i, total |-> headers[i].total, status |-> headers[i].status,
         payment_method |-> headers[i].payment_method, created_at |-> 0]]

InitFold ==
    /\ \E n \in 0..MaxFold : \E headers \in [1..n -> SaleDataInputs] :
          /\ sales = SalesTable(headers)
          /\ sale_items = [i \in 1..n |-> SaleItemRow(i, OneItemInputs_item)]
    /\ products = <<>>
    /\ product_seq = 0
    /\ ct = IdleCtrl
    /\ today = 0
    /\ cs = IdleCreate
    /\ st = IdleStats
    /\ resp = Response("none", "none", 0, <<>>)

NextFold ==
    \E order \in TieOrders(Len(sales)) : getSalesReport_ordered(0, 0, order)

SpecFold == InitFold /\ [][NextFold]_vars

\* C11: whatever the order in which the sales are folded, the report's
\* totalSales, totalRevenue and per-payment-method mapping are those of the
\* sales in table order.
C11_FoldOrderIndependent ==
    (resp.op = "getSalesReport" /\ resp.outcome = "ok")
      => LET r == resp.data[1]
         IN  /\ r.totalSales = Len(sales)
             /\ r.totalRevenue = SumField(sales, "total")
             /\ r.paymentMethods = GroupByPaymentMethod(ExpandAll(sales), <<>>)

C11_Witness ==
    /\ resp.op = "getSalesReport" /\ resp.outcome = "ok"
    /\ Len(sales) = MaxFold
    /\ resp.data[1].sales # ExpandAll(sales)
    /\ resp.data[1].sales[1].id = MaxFold
    /\ \E i \in 1..Len(sales), j \in 1..Len(sales) :
          /\ sales[i].payment_method = sales[j].payment_method
          /\ sales[i].total # sales[j].total
    /\ Cardinality(DOMAIN resp.data[1].paymentMethods) = 2

(***************************************************************************)
(* Properties of the lists (specification SpecList)                        *)
(***************************************************************************)
\* the rows at the positions (page-1)*limit .. page*limit-1 of an ordered set
PageSlice(ordered, page, limit) ==
    LET rest == Len(ordered) - (page - 1) * limit
        k    == IF rest < 0 THEN 0 ELSE IF rest < limit THEN rest ELSE limit
    IN  [i \in 1..k |-> ordered[(page - 1) * limit + i]]

\* ceil(total / limit): the least number of pages of limit rows that hold total rows
CeilOf(total, limit) == CHOOSE n \in 0..total : n * limit >= total /\
                            \A m \in 0..total : m * limit >= total => n <= m

\* C12: for page >= 1 and limit >= 1 a list returns at most limit records,
\* the rows at positions (page-1)*limit .. page*limit-1 of the filtered
\* ordered set, with total the count of all matching rows and
\* totalPages = ceil(total / limit).
C12_Pagination ==
    [][(resp' # resp /\ resp'.outcome = "ok")
        => /\ resp'.op = "getAllSales"
                => LET r == resp'.data[1]
                   IN  (r.page >= 1 /\ r.limit >= 1)
                         => /\ Len(r.sales) <= r.limit
                            /\ r.totalPages = CeilOf(r.total, r.limit)
                            /\ \A filters \in FilterInputs :
                                  getAllSales(r.page, r.limit, filters)
                                    => /\ r.sales = PageSlice(AllSalesQuery(filters),
                                                              r.page, r.limit)
                                       /\ r.total = Len(AllSalesQuery(filters))
           /\ resp'.op \in {"getAllProducts", "getProductsByCategory"}
                => LET r == resp'.data[1]
                       g == r.pagination
                   IN  (g.page >= 1 /\ g.limit >= 1)
                         => /\ Len(r.products) <= g.limit
                            /\ g.pages = CeilOf(g.total, g.limit)
                            /\ \A search \in {<<>>, TextA}, category \in {<<>>, TextA} :
                                  getAllProducts(g.page, g.limit, search, category)
                                    => /\ r.products =
                                            PageSlice(AllProductsQuery(search, category),
                                                      g.page, g.limit)
                                       /\ g.total =
                                            Len(AllProductsQuery(search, category))
                            /\ \A category \in {TextA, TextB} :
                                  getProductsByCategory(category, g.page, g.limit)
                                    => /\ r.products =
                                            PageSlice(ProductsByCategoryQuery(category),
                                                      g.page, g.limit)
                                       /\ g.total =
                                            Len(ProductsByCategoryQuery(category))]_vars

C12_Witness ==
    /\ resp.op = "getAllSales" /\ resp.outcome = "ok"
    /\ resp.data[1].page = 2 /\ resp.data[1].limit = 1
    /\ resp.data[1].total = 2 /\ resp.data[1].totalPages = 2
    /\ Len(resp.data[1].sales) = 1
    /\ resp.data[1].sales[1].id = 1

\* C13: a list called with page < 1 or limit < 1 is rejected with a
\* validation error before any store call.
C13_BadPageRejected ==
    [][\A page \in PageInputs, limit \in LimitInputs :
        (page < 1 \/ limit < 1)
          => /\ \A filters \in FilterInputs :
                   getAllSales(page, limit, filters)
                     => /\ resp'.outcome = "validationError"
                        /\ resp'.storeCalls = 0
             /\ \A search \in {<<>>, TextA}, category \in {<<>>, TextA} :
                   getAllProducts(page, limit, search, category)
                     => /\ resp'.outcome = "validationError"
                        /\ resp'.storeCalls = 0
             /\ \A category \in {TextA, TextB} :
                   getProductsByCategory(category, page, limit)
                     => /\ resp'.outcome = "validationError"
                        /\ resp'.storeCalls = 0]_vars

\* C18: getAllSales with both date bounds given and startDate after
\* endDate is rejected with a validation error and issues no store call.
C18_InvertedDatesRejected ==
    [][\A page \in PageInputs, limit \in LimitInputs, filters \in FilterInputs :
        (/\ Given(filters.startDate) /\ Given(filters.endDate)
         /\ filters.startDate[1] > filters.endDate[1]
         /\ getAllSales(page, limit, filters))
          => /\ resp'.outcome = "validationError"
             /\ resp'.storeCalls = 0]_vars

(***************************************************************************)
(* Properties of the catalogue (specification SpecCatalog)                 *)
(***************************************************************************)
\* C14: a product list asked to sort by a column outside name, price,
\* category, created_at is rejected with a validation error, and the column
\* never reaches the store's order clause.
C14_SortWhitelist ==
    [][\A options \in OptionInputs :
        (options.sortBy \notin SortFields /\ ProductModel_getAllProducts(options))
          => /\ resp'.outcome = "validationError"
             /\ resp'.storeCalls = 0]_vars

\* C15: a lookup of an id that no product has returns null and does not
\* throw; only a store failure is thrown.
C15_ProductNotFoundIsNull ==
    [][\A id \in 1..MaxProducts :
        ((getProductById(id) \/ productModel_getProductById(id))
           /\ id \notin IdsOf(products))
          => \/ resp'.outcome = "ok" /\ resp'.data = <<>>
             \/ resp'.outcome = "error"]_vars

(***************************************************************************)
(* Properties of the single-sale operations                                *)
(***************************************************************************)
\* C16: getSaleById of an id that no sale has answers with a returned
\* not-found value; it does not throw for it, only a store failure is
\* thrown.
C16_SaleNotFoundExplicit ==
    [][\A id \in 1..MaxSales :
        (getSaleById(id) /\ id \notin IdsOf(sales))
          => \/ resp'.outcome = "ok" /\ resp'.data = <<>>
             \/ resp'.outcome = "error"]_vars

\* C17: updateSaleStatus of an id that no sale has leaves every stored
\* sale as it was and, unless the store failed, returns no record, which
\* is the not-found outcome; for an id that a sale has, unless the store
\* failed, that sale and no other gets the new status and it is returned.
C17_UpdateStatusNotFound ==
    [][\A id \in 1..MaxSales, status \in StatusInputs :
        updateSaleStatus(id, status)
          => IF id \notin IdsOf(sales)
             THEN /\ sales' = sales
                  /\ resp'.outcome # "error"
                        => resp'.outcome = "ok" /\ resp'.data = <<>>
             ELSE resp'.outcome # "error"
                    => /\ resp'.outcome = "ok"
                       /\ Len(resp'.data) = 1
                       /\ resp'.data[1].id = id
                       /\ resp'.data[1].status = status
                       /\ Len(sales') = Len(sales)
                       /\ \A i \in 1..Len(sales) :
                             IF sales[i].id = id
                             THEN sales'[i] = resp'.data[1]
                             ELSE sales'[i] = sales[i]]_vars

C17_Witness ==
    /\ resp.op = "updateSaleStatus"
    /\ resp.outcome = "ok"
    /\ resp.data = <<>>
    /\ Len(sales) = 1
    /\ sales[1].status = "completed"

\* C19: createSale with no item, or with an item of quantity <= 0 or of
\* negative price, is rejected with a validation error before any store
\* write: no header and no item is inserted.
C19_InvalidItemsRejected ==
    [][\A saleData \in CashDataInputs, items \in InvalidItemListInputs :
        createSale_insertSale(saleData, items, MaxSales)
          => /\ sales' = sales
             /\ sale_items' = sale_items
             /\ cs' = IdleCreate
             /\ resp'.outcome = "validationError"
             /\ resp'.storeCalls = 0]_vars

\* C20: items are inserted only by a createSale whose header insert was
\* acknowledged, the header being stored and the new rows pointing at it;
\* and createSale returns a sale only when its header and all of its items
\* are stored.
C20_ItemsAfterHeader ==
    [][/\ sale_items' # sale_items
          => /\ cs.pc = "insert_items"
             /\ \E i \in 1..Len(sales) : sales[i] = cs.sale[1]
             /\ sale_items' = sale_items \o SaleItems(cs.sale[1].id, cs.items)
       /\ (/\ cs.pc # "idle" /\ cs'.pc = "idle"
           /\ resp'.op = "createSale" /\ resp'.outcome = "ok")
          => /\ cs.pc = "fetch"
             /\ resp'.storeCalls = 3
             /\ \E i \in 1..Len(sales) : sales[i].id = resp'.data[1].id
             /\ \A k \in 1..Len(cs.items) :
                   \E j \in 1..Len(sale_items) :
                       sale_items[j] = SaleItemRow(resp'.data[1].id, cs.items[k])]_vars

C20_Witness ==
    /\ resp.op = "createSale"
    /\ resp.outcome = "ok"
    /\ Len(resp.data[1].items) = MaxItems
    /\ Len(sale_items) = MaxItems
    /\ \E i \in 1..Len(sales) : sales[i].id = resp.data[1].id

(***************************************************************************)
(* Properties of the report's totals (specification SpecReport)            *)
(***************************************************************************)
RECURSIVE SumOverMethods(_, _, _)
SumOverMethods(paymentMethods, keys, field) ==
    IF keys = {} THEN 0
    ELSE LET m == CHOOSE k \in keys : TRUE
         IN  paymentMethods[m][field]
               + SumOverMethods(paymentMethods, keys \ {m}, field)

\* C30: in every report totalSales is the sum of the methods' counts,
\* totalRevenue the sum of the methods' totals, and every method listed
\* has a count of at least 1.
C30_ReportTotalsAgree ==
    (resp.op = "getSalesReport" /\ resp.outcome = "ok")
      => LET r  == resp.data[1]
             pm == r.paymentMethods
         IN  /\ r.totalSales = SumOverMethods(pm, DOMAIN pm, "count")
             /\ r.totalRevenue = SumOverMethods(pm, DOMAIN pm, "total")
             /\ \A m \in DOMAIN pm : pm[m].count >= 1

C30_Witness ==
    /\ resp.op = "getSalesReport"
    /\ resp.outcome = "ok"
    /\ resp.data[1].totalSales = 2
    /\ DOMAIN resp.data[1].paymentMethods = PaymentMethods
    /\ resp.data[1].totalRevenue = 1 + MaxTotal

(***************************************************************************)
(* Properties of the date filter (specification SpecDates)                 *)
(***************************************************************************)
\* C26: getAllSales applies every date bound it is given: with startDate
\* every returned sale has created_at >= startDate, with endDate every
\* returned sale has created_at <= endDate, also when only one is given.
C26_SingleBoundApplied ==
    [][\A page \in 1..MaxPage, limit \in 1..MaxLimit, filters \in DateFilterInputs :
        (getAllSales(page, limit, filters) /\ resp'.outcome = "ok")
          => \A i \in 1..Len(resp'.data[1].sales) :
                /\ Given(filters.startDate)
                      => resp'.data[1].sales[i].created_at >= filters.startDate[1]
                /\ Given(filters.endDate)
                      => resp'.data[1].sales[i].created_at <= filters.endDate[1]]_vars

(***************************************************************************)
(* Properties of the statistics' windows (specification SpecWindows)       *)
(***************************************************************************)
\* C25: the rows a period selects are exactly the sales created in its
\* look-back window: the current day, the trailing 7 days, the trailing 30
\* days, the trailing 365 days.
C25_FixedWindows ==
    st.pc = "count"
      => \A i \in 1..Len(sales) :
            (sales[i].id \in IdsOf(st.rows))
              <=> InWindow(st.period, sales[i].created_at, today)

(***************************************************************************)
(* Properties of the price snapshot (specification SpecSnapshot)           *)
(***************************************************************************)
\* C21: whatever happens to the products afterwards, a stored sale item
\* keeps its unit price and its subtotal, and a stored sale keeps its
\* total.
C21_PriceSnapshot ==
    [][/\ Len(sale_items') >= Len(sale_items)
       /\ \A i \in 1..Len(sale_items) :
             /\ sale_items'[i].price = sale_items[i].price
             /\ sale_items'[i].subtotal = sale_items[i].subtotal
       /\ Len(sales') >= Len(sales)
       /\ \A i \in 1..Len(sales) : sales'[i].total = sales[i].total]_vars

C21_Witness ==
    /\ resp.op = "updateProduct"
    /\ resp.outcome = "ok"
    /\ Len(resp.data) = 1
    /\ resp.data[1].price = MaxPrice + 1
    /\ \E i \in 1..Len(sale_items) :
          /\ sale_items[i].product_id = resp.data[1].id
          /\ sale_items[i].price = 1
          /\ sale_items[i].subtotal = 1

(***************************************************************************)
(* Properties of the value createSale returns (specification Spec)         *)
(***************************************************************************)
\* C22: the value a successful createSale returns is the stored sale of the
\* new id with exactly the submitted items, one row per entry with the
\* entry's product, quantity and price and the subtotal quantity * price,
\* and its total is the sum of these subtotals.
C22_RoundTrip ==
    [][(/\ cs.pc = "fetch" /\ cs'.pc = "idle"
        /\ resp'.op = "createSale" /\ resp'.outcome = "ok")
         => LET r == resp'.data[1]
            IN  /\ r.id = cs.sale[1].id
                /\ Len(GetSaleByIdQuery(r.id)) = 1
                /\ r = Expand(GetSaleByIdQuery(r.id)[1])
                /\ Len(r.items) = Len(cs.items)
                /\ \A k \in 1..Len(cs.items) :
                      /\ r.items[k].product_id = cs.items[k].product_id
                      /\ r.items[k].quantity = cs.items[k].quantity
                      /\ r.items[k].price = cs.items[k].price
                      /\ r.items[k].subtotal
                            = cs.items[k].quantity * cs.items[k].price
                /\ r.total = SumField(r.items, "subtotal")]_vars

(***************************************************************************)
(* Properties of the product controller (specification SpecController)     *)
(***************************************************************************)
\* C23: every stored product that has a discount price has it below its
\* price.
C23_DiscountBelowPrice ==
    \A i \in 1..Len(products) :
        "discount_price" \in DOMAIN products[i]
          => products[i].discount_price < products[i].price

\* C29: the controller's createProduct issues the insert exactly when name
\* and category are present and price is a value >= 0; otherwise it throws
\* and inserts nothing.
C29_CreateValidation ==
    [][\A productData \in CtrlProductInputs :
        productController_createProduct(productData)
          => IF /\ TextTruthy(productData.name)
                /\ TextTruthy(productData.category)
                /\ Given(productData.price)
                /\ productData.price[1].n >= 0
             THEN resp'.storeCalls = 1
             ELSE /\ resp'.storeCalls = 0
                  /\ resp'.outcome # "ok"
                  /\ products' = products]_vars

\* the required fields of an update that are given but empty
EmptyRequiredField(productData) ==
    \/ Given(productData.name) /\ ~TextTruthy(productData.name)
    \/ Given(productData.price) /\ ~NumTruthy(productData.price)
    \/ Given(productData.category) /\ ~TextTruthy(productData.category)

\* what the existence check of a call may do, unless the store fails: for
\* an id without product return the not-found value and go no further;
\* for an id with a product go on to the one write
Checked(op, id, found, notFound, write) ==
    \/ /\ resp' = Response(op, "error", 1, <<>>)
       /\ ct' = IdleCtrl
    \/ /\ ~found
       /\ resp' = Response(op, "ok", 1, notFound)
       /\ ct' = IdleCtrl
    \/ /\ found
       /\ ct'.pc = write
       /\ ct'.id = id

\* a row is removed or rewritten only by the write of a call that found it,
\* and that write is the call's one store call after the check
OneWrite ==
    /\ (\E i \in 1..Len(products) : products[i].id \notin IdsOf(products'))
          => ct.pc = "delete"
    /\ (\E i \in 1..Len(products) : i <= Len(products') /\ products'[i] # products[i])
          => ct.pc \in {"update", "delete"}
    /\ (ct.pc \in {"update", "delete"} /\ ct'.pc = "idle")
          => /\ resp'.storeCalls = 2
             /\ \A i \in 1..Len(products) :
                   products[i].id # ct.id => products[i] \in {products'[j] : j \in 1..Len(products')}

\* C28 as stated: updateProduct and deleteProduct of the controller return
\* null / false for an id without product and issue no write; for an id
\* with a product they issue exactly one update or delete.
C28_ExistenceChecked ==
    [][/\ \A id \in 1..MaxProducts :
            /\ \A productData \in CtrlUpdateInputs :
                  productController_updateProduct_getProductById(id, productData)
                    => Checked("productController.updateProduct", id,
                               id \in IdsOf(products), <<>>, "update")
            /\ productController_deleteProduct_getProductById(id)
                    => Checked("productController.deleteProduct", id,
                               id \in IdsOf(products), <<FALSE>>, "delete")
       /\ OneWrite]_vars

\* C28 amended: as stated, except that updateProduct, for an id with a
\* product, throws and issues no update when name, price or category is
\* given but empty.
C28_ExistenceCheckedThenFields ==
    [][/\ \A id \in 1..MaxProducts :
            /\ \A productData \in CtrlUpdateInputs :
                  productController_updateProduct_getProductById(id, productData)
                    => IF id \in IdsOf(products) /\ EmptyRequiredField(productData)
                       THEN /\ resp'.outcome \notin {"ok"}
                            /\ resp'.storeCalls = 1
                            /\ ct' = IdleCtrl
                       ELSE Checked("productController.updateProduct", id,
                                    id \in IdsOf(products), <<>>, "update")
            /\ productController_deleteProduct_getProductById(id)
                    => Checked("productController.deleteProduct", id,
                               id \in IdsOf(products), <<FALSE>>, "delete")
       /\ OneWrite]_vars

C28_Witness ==
    /\ resp = Response("productController.deleteProduct", "ok", 1, <<FALSE>>)
    /\ Len(products) = 1
    /\ products[1].id = 2
    /\ "discount_price" \in DOMAIN products[1]

(***************************************************************************)
(* Properties of the highlight views (specification SpecViews)             *)
(***************************************************************************)
NewestFirst(rows) ==
    \A j \in 1..Len(rows), k \in 1..Len(rows) :
        j < k => rows[j].created_at >= rows[k].created_at

\* C24: the featured view returns featured products only, the available
\* view available products only; each lists them newest first and returns
\* at most the cap the caller gave.
C24_RecencyViews ==
    [][/\ \A limit \in 1..MaxLimit :
            (getFeaturedProducts(limit) /\ resp'.outcome = "ok")
              => LET rows == resp'.data[1]
                 IN  /\ Len(rows) <= limit
                     /\ \A j \in 1..Len(rows) : rows[j].is_featured
                     /\ NewestFirst(rows)
       /\ \A page \in 1..MaxPage, limit \in 1..MaxLimit :
            (getAvailableProducts(page, limit) /\ resp'.outcome = "ok")
              => LET rows == resp'.data[1].products
                 IN  /\ Len(rows) <= limit
                     /\ \A j \in 1..Len(rows) : rows[j].is_available
                     /\ NewestFirst(rows)]_vars

(***************************************************************************)
(* Properties of the product routes (specification SpecRoute)              *)
(***************************************************************************)
\* C27: with page and limit taken from the query string, the products
\* returned are rows (page-1)*limit .. page*limit-1 of the list, at most
\* limit of them, for every page >= 1.
C27_QueryStringPage ==
    [][\A query \in QueryInputs :
        LET page  == QueryPage(query).n
            limit == QueryLimit(query).n
        IN  /\ (router_get(query) /\ resp'.outcome = "ok")
                  => /\ Len(resp'.data[1].products) <= limit
                     /\ resp'.data[1].products
                           = PageSlice(AllProductsQuery(<<>>, <<>>), page, limit)
            /\ \A category \in {TextA, TextB} :
                  (router_get_category(category, query) /\ resp'.outcome = "ok")
                    => /\ Len(resp'.data[1].products) <= limit
                       /\ resp'.data[1].products
                             = PageSlice(ProductsByCategoryQuery(category), page, limit)]_vars

====
